---- MODULE Spec2Model ----
(***************************************************************************)
(* MediaControl (mediacontrol_Linux.py): a Tk window that polls playerctl  *)
(* and pactl from one timer callback, update_info, and lets the user pick  *)
(* a player and press transport / volume buttons.                          *)
(*                                                                         *)
(* Text is modelled as a sequence of tokens.  A token is one character of  *)
(* a tool's output (" " and "\n" are the whitespace characters) or one     *)
(* literal of the program taken as an atom ("Volume:", "No players found", *)
(* "Nenhum player ativo", ...).  Python's None is the one-token text None, *)
(* which no tool output contains.                                          *)
(***************************************************************************)
EXTENDS Integers, Sequences, FiniteSets, TLC

VARIABLES
    selected_player,   \* global selected_player: None or <<id, friendly name>>
    player_list,       \* global player_list: sequence of <<id, friendly name>>
    combo_values,      \* player_combo["values"]
    combo_text,        \* the text the selector shows
    title_var,         \* title_var
    status_var,        \* status_var
    volume_var,        \* volume_var
    winExists,         \* the root window exists (mainloop is running)
    pending,           \* number of update_info callbacks scheduled with root.after
    closed,            \* on_close has run
    env,               \* what the two tools answered during the last refresh
    lastCalls,         \* the external calls issued by the last handler, in order
    last               \* the last handler: its name, the picked index, what it saw

vars == <<selected_player, player_list, combo_values, combo_text, title_var,
          status_var, volume_var, winExists, pending, closed, env, lastCalls, last>>

-----------------------------------------------------------------------------
(* Bounds of the model *)

\* Cap on the number of update_info callbacks outstanding at once.
MaxPending == 2

(* Program constants *)

\* title[:50]
TitleMax == 50

\* data[:60]
LabelMax == 60

-----------------------------------------------------------------------------
(* Text helpers: str.strip, str.split, str.splitlines, truthiness *)

None == <<"None">>

WS == {" ", "\n"}

Truthy(x) == x # None /\ x # <<>>

Or(x, y) == IF Truthy(x) THEN x ELSE y

\* s.strip(): s without its leading and trailing whitespace
Strip(s) ==
    LET keep == {i \in 1..Len(s) : s[i] \notin WS}
    IN  IF keep = {} THEN <<>>
        ELSE SubSeq(s, CHOOSE i \in keep : \A j \in keep : i <= j,
                       CHOOSE i \in keep : \A j \in keep : i >= j)

\* s.split(sep): the stretches of s between the occurrences of sep
Split(s, sep) ==
    LET seps   == {i \in 1..Len(s) : s[i] = sep}
        n      == Cardinality(seps)
        Pos(k) == CHOOSE i \in seps : Cardinality({j \in seps : j < i}) = k - 1
    IN  [k \in 1..(n + 1) |->
            SubSeq(s, IF k = 1 THEN 1 ELSE Pos(k - 1) + 1,
                      IF k = n + 1 THEN Len(s) ELSE Pos(k) - 1)]

\* s.splitlines(): the lines of s, a final line break starting no line
SplitLines(s) ==
    IF s = <<>> THEN <<>>
    ELSE LET parts == Split(s, "\n")
         IN  IF parts[Len(parts)] = <<>>
             THEN SubSeq(parts, 1, Len(parts) - 1)
             ELSE parts

\* cmd.split(): the words of a command line
Words(cmd) == SelectSeq(cmd, LAMBDA t : t \notin WS)

\* "marker" in line / line.startswith(marker), the marker being one token
Contains(line, marker) == \E i \in 1..Len(line) : line[i] = marker

StartsWith(line, marker) == line # <<>> /\ line[1] = marker

\* s[:n] + ("..." if len(s) > n else "")
Truncate(s, n) ==
    IF Len(s) > n THEN SubSeq(s, 1, n) \o <<".", ".", ".">> ELSE s

\* str.capitalize() of an application name
CapWord(t) ==
    CASE t = "spotify" -> "Spotify"
      [] t = "firefox" -> "Firefox"
      [] t = "vlc"     -> "Vlc"
      [] OTHER         -> t

Capitalize(s) == IF s = <<>> THEN s ELSE <<CapWord(s[1])>> \o Tail(s)

-----------------------------------------------------------------------------
(* The two external tools.  subprocess.run either raises or completes with *)
(* a return code and the text of stdout.                                   *)

Proc(raised, rc, out) == [raised |-> raised, returncode |-> rc, stdout |-> out]

ProcRaise == Proc(TRUE, 0, <<>>)

\* The players the media tool may report.
Apps == <<"spotify", "firefox">>

NumPlayers == Len(Apps)

\* A player identifier as playerctl prints it, e.g. spotify.instance
PlayerId(i) == <<Apps[i], ".", "instance">>

\* Every order in which the tool may list some of the players.
PlayerSeqs ==
    {s \in UNION {[1..n -> 1..NumPlayers] : n \in 1..NumPlayers} :
        \A a, b \in DOMAIN s : a # b => s[a] # s[b]}

RECURSIVE JoinLines(_)
JoinLines(ls) ==
    IF ls = <<>> THEN <<>> ELSE Head(ls) \o <<"\n">> \o JoinLines(Tail(ls))

RECURSIVE PaddedLines(_)
PaddedLines(ls) ==
    IF ls = <<>> THEN <<>>
    ELSE <<" ">> \o Head(ls) \o <<" ", "\n", "\n">> \o PaddedLines(Tail(ls))

\* What `playerctl -l` may do: raise, fail, print nothing, print the
\* "No players found" line, list players in some order, or list them with
\* padding and blank lines.
ListOuts ==
    {ProcRaise, Proc(FALSE, 1, <<>>), Proc(FALSE, 0, <<>>),
     Proc(FALSE, 0, <<"No players found", "\n">>),
     Proc(FALSE, 0, PaddedLines([k \in 1..NumPlayers |-> PlayerId(k)]))}
    \cup {Proc(FALSE, 0, JoinLines([k \in 1..Len(s) |-> PlayerId(s[k])])) :
            s \in PlayerSeqs}

Xs(n) == [i \in 1..n |-> "x"]

MetaFormatArgs == <<"metadata", "--format", "{{xesam:artist}} - {{xesam:title}}">>

\* How the media tool answers the per-player queries.
Scens == {"ok", "bare", "long", "raise"}

PlayerReply(scen, args, player) ==
    LET app == IF Truthy(player) THEN player[1] ELSE "none"
    IN  CASE scen = "raise" -> ProcRaise
          [] scen = "ok" ->
                CASE args = MetaFormatArgs ->
                        Proc(FALSE, 0, <<"artist", " ", "-", " ", "song", "@", app, "\n">>)
                  [] args = <<"metadata", "xesam:title">> ->
                        Proc(FALSE, 0, <<"song", "@", app, "\n">>)
                  [] args = <<"metadata", "xesam:artist">> ->
                        Proc(FALSE, 0, <<"artist", "@", app, "\n">>)
                  [] args = <<"status">> -> Proc(FALSE, 0, <<"Playing", "\n">>)
                  [] OTHER -> Proc(FALSE, 0, <<>>)
          [] scen = "bare" ->
                CASE args = MetaFormatArgs -> Proc(FALSE, 1, <<>>)
                  [] args = <<"status">> -> Proc(FALSE, 0, <<"Paused", "\n">>)
                  [] OTHER -> Proc(FALSE, 0, <<"\n">>)
          [] OTHER ->
                CASE args = MetaFormatArgs -> Proc(FALSE, 0, Xs(LabelMax + 1))
                  [] args = <<"metadata", "xesam:title">> ->
                        Proc(FALSE, 0, Xs(TitleMax + 1))
                  [] args = <<"status">> -> Proc(FALSE, 0, <<"Stopped", "\n">>)
                  [] OTHER -> Proc(FALSE, 1, <<"song">>)

\* What `pactl get-sink-volume @DEFAULT_SINK@` may do.
MixerTwo ==
    Proc(FALSE, 0,
         <<"Sink", "\n",
           "Volume:", " ", "front-left:", " ", "29491", " ", "/", " ", " ", "45%",
           " ", "/", " ", "-20.81 dB", "\n",
           "Volume:", " ", "/", " ", "80%", " ", "/", "\n",
           " ", "balance 0.00", "\n">>)

MixerNoLine == Proc(FALSE, 1, <<"Failure", "\n">>)

MixerNoSlash == Proc(FALSE, 0, <<"Volume:", " ", "45%", "\n">>)

MixerOuts == {MixerTwo, MixerNoLine, MixerNoSlash, ProcRaise}

\* The answers of the two tools that occur together in one refresh: both
\* healthy, each degraded, both failing, and one failing while the other
\* is healthy.
Answers ==
    {<<"ok", MixerTwo>>, <<"bare", MixerNoSlash>>, <<"long", MixerNoLine>>,
     <<"raise", ProcRaise>>, <<"ok", ProcRaise>>, <<"raise", MixerTwo>>}

Envs ==
    {[list |-> l, scen |-> a[1], mixer |-> a[2]] : l \in ListOuts, a \in Answers}

-----------------------------------------------------------------------------
(* FUNCOES AUXILIARES *)

PlayerctlCall(args, player) ==
    [tool |-> "playerctl",
     player |-> IF Truthy(player) THEN player ELSE None,
     args |-> args]

PactlCall(args) == [tool |-> "pactl", player |-> None, args |-> args]

SubprocessRun(e, args, player) ==
    IF args = <<"-l">> THEN e.list ELSE PlayerReply(e.scen, args, player)

\* run_playerctl: stdout stripped when the return code is 0, None otherwise;
\* `except Exception` turns a raise of subprocess.run into None.
run_playerctl(e, args, player) ==
    LET r == SubprocessRun(e, args, player)
    IN  IF r.raised THEN None
        ELSE IF r.returncode = 0 THEN Strip(r.stdout) ELSE None

\* Mutant: run_playerctl without its try / except.
NoCatchPlayerctl(r) == r.raised

\* Whether an exception of subprocess.run leaves run_playerctl: never.

run_playerctl_raises(r) == FALSE

get_friendly_name(e, player_id) ==
    LET data == run_playerctl(e, MetaFormatArgs, player_id)
        app  == Capitalize(Split(player_id, ".")[1])
    IN  IF Truthy(data)
        THEN app \o <<" ", "->", " ">> \o Truncate(data, LabelMax)
        ELSE app

\* The lines of `playerctl -l` that list_players keeps.
ListedIds(e) ==
    LET result == run_playerctl(e, <<"-l">>, None)
    IN  IF ~Truthy(result) THEN <<>>
        ELSE LET lines == SplitLines(result)
                 stripped == [k \in 1..Len(lines) |-> Strip(lines[k])]
             IN  SelectSeq(stripped,
                     LAMBDA l : ~(l = <<>> \/ StartsWith(l, "No players found")))

list_players(e) ==
    LET ids == ListedIds(e)
    IN  [k \in 1..Len(ids) |-> <<ids[k], get_friendly_name(e, ids[k])>>]

list_players_calls(e) ==
    LET ids == ListedIds(e)
    IN  <<PlayerctlCall(<<"-l">>, None)>>
        \o [k \in 1..Len(ids) |-> PlayerctlCall(MetaFormatArgs, ids[k])]

\* list_players and its calls, tabulated once per answer of the tools.
PlayersOf == [e \in Envs |-> list_players(e)] @@ <<>>

PlayersCallsOf == [e \in Envs |-> list_players_calls(e)] @@ <<>>

get_player_status(e, player) ==
    LET status == run_playerctl(e, <<"status">>, player)
    IN  IF status = <<"Playing">> THEN <<"[>]", " ", "Tocando">>
        ELSE IF status = <<"Paused">> THEN <<"[||]", " ", "Pausado">>
        ELSE <<"[#]", " ", "Parado">>

\* run_cmd: nothing without a selection, else the command on selected_player[0]
run_cmd(e, sel, cmd) ==
    IF ~Truthy(sel) THEN None ELSE run_playerctl(e, Words(cmd), sel[1])

\* Mutant: the early return of run_cmd dropped.
RunCmdCallsUnguarded(sel, cmd) ==
    <<PlayerctlCall(Words(cmd), IF Truthy(sel) THEN sel[1] ELSE None)>>

run_cmd_calls(sel, cmd) ==
    IF ~Truthy(sel) THEN <<>> ELSE <<PlayerctlCall(Words(cmd), sel[1])>>

VolumeSentinel == <<"--%">>

GetVolumeArgs == <<"get-sink-volume", "@DEFAULT_SINK@">>

\* Mutant: the last "Volume:" line read instead of the first.
GetVolumeLastLine(e) ==
    LET r == e.mixer
    IN  IF r.raised THEN VolumeSentinel
        ELSE LET lines == SplitLines(r.stdout)
                 marked == SelectSeq(lines, LAMBDA l : Contains(l, "Volume:"))
             IN  IF marked = <<>> THEN VolumeSentinel
                 ELSE LET parts == Split(marked[Len(marked)], "/")
                      IN  IF Len(parts) < 2 THEN VolumeSentinel
                          ELSE Strip(parts[2])

get_volume(e) ==
    LET r == e.mixer
    IN  IF r.raised THEN VolumeSentinel
        ELSE LET lines == SplitLines(r.stdout)
                 marked == SelectSeq(lines, LAMBDA l : Contains(l, "Volume:"))
             IN  IF marked = <<>> THEN VolumeSentinel
                 ELSE LET parts == Split(marked[1], "/")
                      IN  IF Len(parts) < 2 THEN VolumeSentinel
                          ELSE Strip(parts[2])

\* get_volume, tabulated once per answer of the tools.
VolumeOf == [e \in Envs |-> get_volume(e)] @@ <<>>

\* Whether an exception leaves get_volume: never (bare except).
get_volume_raises(r) == FALSE

-----------------------------------------------------------------------------
(* CONTROLES DE MIDIA E VOLUME *)

TransportCmd ==
    [play_pause    |-> <<"play-pause">>,
     next_track    |-> <<"next">>,
     prev_track    |-> <<"previous">>,
     seek_forward  |-> <<"position", " ", "10+">>,
     seek_backward |-> <<"position", " ", "10-">>]

VolumeDelta == [vol_up |-> "+5%", vol_down |-> "-5%"]

set_volume_calls(delta) ==
    <<PactlCall(<<"set-sink-volume", "@DEFAULT_SINK@", delta>>)>>

-----------------------------------------------------------------------------
(* ATUALIZACAO DE INTERFACE: update_info, statement by statement *)

NoPlayerActive == <<"Nenhum player ativo">>

NoPlayerSelected == <<"Nenhum player selecionado">>

SelectAbove == <<"Selecione um player acima">>

TitleUnavailable == <<"Titulo indisponivel">>

TitleCmd == <<"metadata", " ", "xesam:title">>

ArtistCmd == <<"metadata", " ", "xesam:artist">>

\* display_names = [name for _, name in player_list]
display_names(list) == [k \in 1..Len(list) |-> list[k][2]]

\* Mutants of the selection branches: the keep branch tested before the
\* empty list; the force flag ignored; the selection kept only while its
\* identifier is still listed.
SelectedKeepFirst(sel, list, force) ==
    IF Truthy(sel) /\ ~force THEN sel
    ELSE IF display_names(list) = <<>> THEN None
    ELSE list[1]

SelectedIgnoringForce(sel, list, force) ==
    IF display_names(list) = <<>> THEN None
    ELSE IF Truthy(sel) THEN sel
    ELSE list[1]

SelectedRevalidated(sel, list, force) ==
    IF display_names(list) = <<>> THEN None
    ELSE IF Truthy(sel) /\ ~force /\ (\E k \in 1..Len(list) : list[k][1] = sel[1])
         THEN sel
    ELSE list[1]

\* The if / elif / else that settles selected_player.
update_info_selected(sel, list, force) ==
    IF display_names(list) = <<>> THEN None
    ELSE IF Truthy(sel) /\ ~force THEN sel
    ELSE list[1]

\* The same branches on the selector's text: set(...), pass, current(0).
update_info_combo(text, sel, list, force) ==
    IF display_names(list) = <<>> THEN NoPlayerActive
    ELSE IF Truthy(sel) /\ ~force THEN text
    ELSE display_names(list)[1]

\* Mutant: the queries made before the selection is settled.
QueriedBefore(before, after) == before

\* The player the title, artist and status are asked of: selected_player
\* as the branches above left it.
queried_player(before, after) == after

update_info_title(e, sel) ==
    IF ~Truthy(sel) THEN NoPlayerSelected
    ELSE Truncate(Or(run_cmd(e, sel, TitleCmd), TitleUnavailable), TitleMax)

update_info_status(e, sel) ==
    IF ~Truthy(sel) THEN SelectAbove
    ELSE LET artist == Or(run_cmd(e, sel, ArtistCmd), <<>>)
             status == get_player_status(e, sel[1])
         IN  Strip(artist \o <<" ">> \o status)

update_info_query_calls(sel) ==
    IF ~Truthy(sel) THEN <<>>
    ELSE run_cmd_calls(sel, TitleCmd) \o run_cmd_calls(sel, ArtistCmd)
         \o <<PlayerctlCall(<<"status">>, sel[1])>>

\* volume_var.set(get_volume()) closes both branches.
update_info_volume_calls(e) == <<PactlCall(GetVolumeArgs)>>

AnyRaises(e, calls) ==
    \E k \in 1..Len(calls) :
        run_playerctl_raises(SubprocessRun(e, calls[k].args, calls[k].player))

\* if root.winfo_exists(): root.after(3000, update_info)
root_after(exists, queued) == IF exists THEN queued + 1 ELSE queued

\* update_info(force) with the tools answering as e, started with the
\* selection sel and the selector text text, queued callbacks outstanding.
\* An exception that left a helper would end the handler at that statement.
update_info(e, sel, text, force, queued) ==
    LET list   == PlayersOf[e]
        sel2   == update_info_selected(sel, list, force)
        target == queried_player(sel, sel2)
        r1     == AnyRaises(e, PlayersCallsOf[e])
        r2     == r1 \/ AnyRaises(e, update_info_query_calls(target))
        r3     == r2 \/ get_volume_raises(e.mixer)
    IN  /\ player_list' = IF r1 THEN player_list ELSE list
        /\ combo_values' = IF r1 THEN combo_values ELSE display_names(list)
        /\ selected_player' = IF r1 THEN sel ELSE sel2
        /\ combo_text' = IF r1 THEN text ELSE update_info_combo(text, sel, list, force)
        /\ title_var' = IF r2 THEN title_var ELSE update_info_title(e, target)
        /\ status_var' = IF r2 THEN status_var ELSE update_info_status(e, target)
        /\ volume_var' = IF r3 THEN volume_var ELSE VolumeOf[e]
        /\ pending' = IF r3 THEN queued ELSE root_after(winExists, queued)
        /\ lastCalls' =
              PlayersCallsOf[e]
              \o (IF r1 THEN <<>> ELSE update_info_query_calls(target))
              \o (IF r2 THEN <<>> ELSE update_info_volume_calls(e))
        /\ env' = e

-----------------------------------------------------------------------------
(* INTERFACE TKINTER: the window, its event loop and the handlers *)

\* root.mainloop() delivers events while the root window exists.
MainloopRunning == winExists

\* Mutant: on_close that logs and leaves the window.
DestroyForgotten(exists) == exists

\* root.destroy()

root_destroy(exists) == FALSE

Init ==
    /\ selected_player = None
    /\ player_list = <<>>
    /\ combo_values = <<>>
    /\ combo_text = <<>>
    /\ title_var = <<"Carregando...">>
    /\ status_var = <<>>
    /\ volume_var = <<"--%">>
    /\ winExists = TRUE
    /\ pending = 1
    /\ closed = FALSE
    /\ env = [list |-> ProcRaise, scen |-> "raise", mixer |-> ProcRaise]
    /\ lastCalls = <<>>
    /\ last = [op |-> "init", idx |-> 0, hadSel |-> FALSE, sameList |-> FALSE,
               rep |-> FALSE]

\* The event loop delivers one scheduled update_info callback.
Tick(e) ==
    /\ MainloopRunning
    /\ pending > 0
    /\ update_info(e, selected_player, combo_text, FALSE, pending - 1)
    /\ last' = [op |-> "tick", idx |-> 0, hadSel |-> Truthy(selected_player),
                sameList |-> FALSE,
                rep |-> (last.op = "tick" /\ e = env)]
    /\ UNCHANGED <<winExists, closed>>

\* The user picks entry i of the selector (player_combo.current() = i - 1): the selector shows
\* that entry and <<ComboboxSelected>> runs on_player_select.
on_player_select(i, e) ==
    /\ MainloopRunning
    /\ i \in 1..Len(combo_values)
    /\ pending < MaxPending
    /\ IF i - 1 >= 0 /\ i - 1 < Len(player_list)
       THEN update_info(e, player_list[i], combo_values[i], TRUE, pending)
       ELSE /\ combo_text' = combo_values[i]
            /\ lastCalls' = <<>>
            /\ UNCHANGED <<selected_player, player_list, combo_values, title_var,
                           status_var, volume_var, pending, env>>
    /\ last' = [op |-> "on_player_select", idx |-> i - 1,
                hadSel |-> Truthy(selected_player),
                sameList |-> (PlayersOf[e] = player_list),
                rep |-> FALSE]
    /\ UNCHANGED <<winExists, closed>>

\* A transport button: play_pause, next_track, prev_track, seek_*.
Transport(name) ==
    /\ MainloopRunning
    /\ lastCalls' = run_cmd_calls(selected_player, TransportCmd[name])
    /\ last' = [op |-> name, idx |-> 0, hadSel |-> Truthy(selected_player),
                sameList |-> FALSE, rep |-> FALSE]
    /\ UNCHANGED <<selected_player, player_list, combo_values, combo_text,
                   title_var, status_var, volume_var, winExists, pending,
                   closed, env>>

\* A volume button: vol_up, vol_down.
Volume(name) ==
    /\ MainloopRunning
    /\ lastCalls' = set_volume_calls(VolumeDelta[name])
    /\ last' = [op |-> name, idx |-> 0, hadSel |-> Truthy(selected_player),
                sameList |-> FALSE, rep |-> FALSE]
    /\ UNCHANGED <<selected_player, player_list, combo_values, combo_text,
                   title_var, status_var, volume_var, winExists, pending,
                   closed, env>>

\* WM_DELETE_WINDOW
on_close ==
    /\ MainloopRunning
    /\ winExists' = root_destroy(winExists)
    /\ closed' = TRUE
    /\ lastCalls' = <<>>
    /\ last' = [op |-> "on_close", idx |-> 0, hadSel |-> Truthy(selected_player),
                sameList |-> FALSE, rep |-> FALSE]
    /\ UNCHANGED <<selected_player, player_list, combo_values, combo_text,
                   title_var, status_var, volume_var, pending, env>>

TickStep == \E e \in Envs : Tick(e)

SelectStep == \E i \in 1..NumPlayers, e \in Envs : on_player_select(i, e)

TransportStep == \E name \in DOMAIN TransportCmd : Transport(name)

VolumeStep == \E name \in DOMAIN VolumeDelta : Volume(name)

Next == TickStep \/ SelectStep \/ TransportStep \/ VolumeStep \/ on_close

Spec == Init /\ [][Next]_vars

\* The event loop fires a due timer callback.
FairSpec == Spec /\ WF_vars(TickStep)

-----------------------------------------------------------------------------
(* Properties *)

Display ==
    <<selected_player, combo_values, combo_text, title_var, status_var, volume_var>>

RefreshOps == {"tick", "on_player_select"}

\* C1: after a refresh (timer tick or forced) whose registry result is empty,
\* no player is selected and the selector, title and status show the
\* no-player placeholders, whatever was selected before.
C1_EmptyListClearsSelection ==
    (last.op \in RefreshOps /\ player_list = <<>>)
        => /\ selected_player = None
           /\ combo_text = NoPlayerActive
           /\ title_var = NoPlayerSelected
           /\ status_var = SelectAbove

\* A tick found the list empty while a player was selected.
C1_Witness ==
    /\ last.op = "tick"
    /\ last.hadSel
    /\ player_list = <<>>
    /\ selected_player = None

\* C2: after a refresh with a non-empty registry result that started with no
\* selection, or that was forced, the selection is the first listed player.
C2_FirstPlayerSelected ==
    (/\ player_list # <<>>
     /\ \/ last.op = "tick" /\ ~last.hadSel
        \/ last.op = "on_player_select")
        => selected_player = player_list[1]

\* A forced refresh after the user picked the second entry.
C2_Witness ==
    /\ last.op = "on_player_select"
    /\ last.idx = 1
    /\ Len(player_list) = 2
    /\ selected_player = player_list[1]

\* C3: once on_player_select has run for the entry at index idx while the
\* tool reports the same player list, the selected player is that entry.
C3_UserPickSelected ==
    (last.op = "on_player_select" /\ last.sameList)
        => selected_player = player_list[last.idx + 1]

\* C4: a timer tick with a non-empty registry result leaves an existing
\* selection as it was, listed or not.
C4_SelectionKept ==
    [][(last'.op = "tick" /\ Truthy(selected_player) /\ player_list' # <<>>)
           => selected_player' = selected_player]_vars

\* After a tick the selection names a player the fresh list no longer holds.
C4_Witness ==
    /\ last.op = "tick"
    /\ Truthy(selected_player)
    /\ player_list # <<>>
    /\ \A k \in 1..Len(player_list) : player_list[k][1] # selected_player[1]

\* C5: whatever the tools do, a tick leaves as many callbacks scheduled as it
\* found, one is scheduled whenever the window exists, and ticks recur for
\* as long as the window exists.
C5_RefreshNeverHalts ==
    /\ [][last'.op = "tick" => pending' = pending]_vars
    /\ [](winExists => pending >= 1)
    /\ []<>(~winExists \/ last.op = "tick")

\* A tick in which every external call raised has scheduled the next one.
C5_Witness ==
    /\ last.op = "tick"
    /\ env.list.raised /\ env.scen = "raise" /\ env.mixer.raised
    /\ winExists
    /\ pending >= 1

\* C6: a timer tick that follows a timer tick, the tools answering the same,
\* leaves the selection and everything displayed as the first tick left them.
C6_RefreshIdempotent ==
    [][(last.op = "tick" /\ last'.op = "tick" /\ env' = env)
           => Display' = Display]_vars

\* Two ticks in a row saw the same answers, with a player selected.
C6_Witness ==
    /\ last.op = "tick"
    /\ last.rep
    /\ Truthy(selected_player)
    /\ env.scen = "ok"

\* The percentage of the first line holding "Volume:", the sentinel if there
\* is none, if it has no second "/" field, or if the mixer call raised.
ExpectedVolume(r) ==
    LET lines == IF r.raised THEN <<>> ELSE SplitLines(r.stdout)
        hits  == {k \in 1..Len(lines) : Contains(lines[k], "Volume:")}
    IN  IF hits = {} THEN <<"--%">>
        ELSE LET first  == CHOOSE k \in hits : \A j \in hits : k <= j
                 fields == Split(lines[first], "/")
             IN  IF Len(fields) < 2 THEN <<"--%">> ELSE Strip(fields[2])

\* C7: every refresh ends by asking the mixer for the volume, with or without
\* a selected player, and shows the parsed percentage or the sentinel.
C7_VolumeAlwaysShown ==
    last.op \in RefreshOps
        => /\ lastCalls # <<>>
           /\ lastCalls[Len(lastCalls)] =
                 [tool |-> "pactl", player |-> None,
                  args |-> <<"get-sink-volume", "@DEFAULT_SINK@">>]
           /\ volume_var = ExpectedVolume(env.mixer)
           /\ (env.mixer = MixerTwo => volume_var = <<"45%">>)

\* A tick with no player selected showed the parsed volume.
C7_Witness ==
    /\ last.op = "tick"
    /\ selected_player = None
    /\ env.mixer = MixerTwo
    /\ volume_var = <<"45%">>

\* C8: one callback is scheduled at startup, and once on_close has run no
\* handler issues a call, changes what is displayed or schedules a tick.
C8_NoRefreshAfterClose ==
    [][closed => UNCHANGED <<Display, player_list, pending, lastCalls, env>>]_vars

\* The window was closed with a scheduled callback still outstanding.
C8_Witness ==
    /\ closed
    /\ ~winExists
    /\ pending >= 1
    /\ Truthy(selected_player)

\* C9: at most one update_info callback is scheduled at any moment.
C9_SingleTimerChain == pending <= 1

ExpectedArgs ==
    [play_pause    |-> <<"play-pause">>,
     next_track    |-> <<"next">>,
     prev_track    |-> <<"previous">>,
     seek_forward  |-> <<"position", "10+">>,
     seek_backward |-> <<"position", "10-">>]

\* C10: a transport button issues no call without a selection and otherwise
\* one playerctl call on the selected player's identifier; a volume button
\* issues one pactl call on the default sink; none of them changes the
\* selection, the cached list or what is displayed.
C10_ButtonsOnlyCall ==
    [][/\ \A name \in DOMAIN ExpectedArgs :
              last'.op = name =>
                  /\ lastCalls' =
                        IF selected_player = None THEN <<>>
                        ELSE <<[tool |-> "playerctl",
                                player |-> selected_player[1],
                                args |-> ExpectedArgs[name]]>>
                  /\ UNCHANGED <<Display, player_list>>
       /\ \A name \in {"vol_up", "vol_down"} :
              last'.op = name =>
                  /\ lastCalls' =
                        <<[tool |-> "pactl", player |-> None,
                           args |-> <<"set-sink-volume", "@DEFAULT_SINK@",
                                      IF name = "vol_up" THEN "+5%" ELSE "-5%">>]>>
                  /\ UNCHANGED <<Display, player_list>>]_vars

\* A seek button was pressed with a player selected.
C10_Witness ==
    /\ last.op = "seek_forward"
    /\ Truthy(selected_player)
    /\ Len(lastCalls) = 1
    /\ lastCalls[1].player = selected_player[1]

====
